---- MODULE Spec2Model ----
(***************************************************************************)
(* Model of ProgrammerMagazineScraper (src/prog.ts) and of its earlier     *)
(* revision (src/unnamed/part_000): a bounded-concurrency download         *)
(* scheduler running on one cooperative thread.  A step of the model is    *)
(* one run-to-suspension piece of JavaScript: the code between two awaits. *)
(***************************************************************************)
EXTENDS Integers, Sequences, FiniteSets, TLC

\* ---------------------------------------------------------------- bounds
MaxLinks == 3          \* links getLinks() may return
NumFiles == 2          \* distinct destination paths (duplicates are possible)
MaxCap == 2            \* largest value given to the maxRequests setter
NegCaps == 1           \* how many negative values the maxRequests setter is given
MaxCalls == 2          \* scrape() calls on one instance, where several are made
MaxMultiLinks == 2     \* links per call, where several calls are made
MaxOverlaps == 1       \* scrape() calls made while an earlier one is pending
MaxOverlapLinks == 1   \* links per call, where calls overlap
MaxMagazines == 3      \* paths handed to uploadNewMagazines on its own

\* ------------------------------------------------------ program constants
DefaultMaxRequests == 3
MainMaxRequests == 5

Files == 1..NumFiles
CapValues == (0 - NegCaps)..MaxCap

RECURSIVE SeqsUpTo(_, _)
SeqsUpTo(S, n) ==
  IF n = 0 THEN {<< >>}
  ELSE LET shorter == SeqsUpTo(S, n - 1)
       IN shorter \cup {Append(s, x) : s \in {q \in shorter : Len(q) = n - 1}, x \in S}

LinkLists == SeqsUpTo(Files, MaxLinks)

VARIABLES
  maxRequests,          \* _maxRequests
  runningRequests,      \* runningRequests
  completedRequests,    \* completedRequests
  requestsList,         \* requestsList: seq of [started, scrape |-> closure id]
  allRequestsCompleted, \* the stored callback: "noop" or "resolve"
  newMagazines,         \* newMagazines: seq of destination paths
  actions,              \* closures made by scraperFactory: [file, phase, invoked]
  waitAllPromises,      \* state of the promise scrape() awaits
  pc,                   \* position of the scrape() call
  links,                \* what getLinks() returned
  linkIdx,              \* loop position in scrape()'s for-of
  skipExisting,         \* argument of scrape()
  exists,               \* destination paths present on disk
  result,               \* value scrape() resolved with
  fired,                \* history: calls of allRequestsCompleted()
  startNextCalls,       \* history: calls of startNext()
  skipped,              \* history: paths skipped by the existence check
  error,                \* what scrape() rejected with: "none", "login", "parse"
  variant,              \* which source file the instance runs
  calls,                \* history: scrape() calls made on the instance
  orphans,              \* history: closures in flight when scrapeInit() last ran
  main                  \* the main function and uploadNewMagazines: a record

vars == << maxRequests, runningRequests, completedRequests, requestsList,
           allRequestsCompleted, newMagazines, actions, waitAllPromises, pc,
           links, linkIdx, skipExisting, exists, result, fired,
           startNextCalls, skipped, error, variant, calls, orphans, main >>

InFlightPhases == {"fetch", "mkdir", "write"}
FinishedPhases == {"ok", "failed"}

\* field initialisers and constructor of the class
InitFields ==
  /\ maxRequests = DefaultMaxRequests
  /\ runningRequests = 0
  /\ completedRequests = 0
  /\ requestsList = << >>
  /\ allRequestsCompleted = "noop"
  /\ newMagazines = << >>
  /\ actions = << >>
  /\ waitAllPromises = "none"
  /\ pc = "idle"
  /\ links = << >>
  /\ linkIdx = 0
  /\ skipExisting = TRUE
  /\ exists \in SUBSET Files
  /\ result = << >>
  /\ fired = 0
  /\ startNextCalls = 0
  /\ skipped = {}
  /\ error = "none"
  /\ calls = 0
  /\ orphans = {}

\* the scraper used on its own, without the main function
NoMain == [pc |-> "off"]

Init == InitFields /\ variant = "prog" /\ main = NoMain

\* ------------------------------------------------------------ startNext
\* mutant: off-by-one cap check, `>` in place of `>=`
CapReached_offByOne(running, cap) == running > cap

\* mutant: a non-positive cap is taken to mean "no limit"
CapReached_unlimited(running, cap) == cap > 0 /\ running >= cap

\* mutant: the check stops one slot short of the cap
CapReached_leavesSlot(running, cap) == running >= cap - 1

\* `if (this.runningRequests >= this.maxRequests) return;`
CapReached(running, cap) == running >= cap

\* mutant: the started flag is not consulted
AlreadyStarted_ignored(req) == FALSE

\* `if (req.started === true) continue;`
AlreadyStarted(req) == req.started = TRUE

\* mutant: the completion check is off by one task
AllCompleted_early(completed, len) == completed >= len - 1

\* mutant: the completion check can never succeed
AllCompleted_never(completed, len) == completed > len

\* mutant: the completion check is skipped for an empty list
AllCompleted_nonEmpty(completed, len) == len > 0 /\ completed >= len

\* `if (this.completedRequests >= this.requestsList.length)`
AllCompleted(completed, len) == completed >= len

\* req.scrape(): the closure runs synchronously up to its first await,
\* the request.get() call, and suspends there.
Launch(acts, t) ==
  [acts EXCEPT ![t].phase = "fetch", ![t].invoked = acts[t].invoked + 1]

\* mutant: the list is scanned from its end
RECURSIVE startNextLoop_backwards(_, _, _, _)
startNextLoop_backwards(i, list, acts, running) ==
  LET j == Len(list) + 1 - i
  IN IF i > Len(list)
       THEN [list |-> list, acts |-> acts, running |-> running, returned |-> FALSE]
     ELSE IF running >= maxRequests
       THEN [list |-> list, acts |-> acts, running |-> running, returned |-> TRUE]
     ELSE IF list[j].started = TRUE
       THEN startNextLoop_backwards(i + 1, list, acts, running)
     ELSE startNextLoop_backwards(i + 1, [list EXCEPT ![j].started = TRUE],
            [acts EXCEPT ![list[j].scrape].phase = "fetch",
                         ![list[j].scrape].invoked = acts[list[j].scrape].invoked + 1],
            running + 1)

\* The for-of loop of startNext from position i on.  The closure does not
\* re-enter startNext before it suspends, so `req.scrape()` followed by
\* `++this.runningRequests` is one step.
RECURSIVE startNextLoop(_, _, _, _)
startNextLoop(i, list, acts, running) ==
  IF i > Len(list)
    THEN [list |-> list, acts |-> acts, running |-> running, returned |-> FALSE]
  ELSE IF CapReached(running, maxRequests)
    THEN [list |-> list, acts |-> acts, running |-> running, returned |-> TRUE]
  ELSE IF AlreadyStarted(list[i])
    THEN startNextLoop(i + 1, list, acts, running)
  ELSE startNextLoop(i + 1, [list EXCEPT ![i].started = TRUE],
                     Launch(acts, list[i].scrape), running + 1)

\* startNext() of prog.ts: the loop, then the completion check unless the
\* loop returned early.
startNext(list, acts, running, completed) ==
  LET r == startNextLoop(1, list, acts, running)
  IN [list |-> r.list, acts |-> r.acts, running |-> r.running,
      fire |-> (~r.returned) /\ AllCompleted(completed, Len(r.list))]

\* Effect of one startNext() call on the instance; callback and promise
\* are the stored callback and the awaited promise at the time of the call.
CallStartNext(list, acts, running, completed, callback, promise) ==
  LET r == startNext(list, acts, running, completed)
  IN /\ requestsList' = r.list
     /\ actions' = r.acts
     /\ runningRequests' = r.running
     /\ startNextCalls' = startNextCalls + 1
     /\ fired' = IF r.fire THEN fired + 1 ELSE fired
     /\ waitAllPromises' =
          IF r.fire /\ callback = "resolve" THEN "resolved" ELSE promise

\* --------------------------------------------------------------- scrape
\* maxRequests setter, used before the run starts.
SetMaxRequests(n) ==
  /\ pc = "idle"
  /\ maxRequests # n
  /\ maxRequests' = n
  /\ UNCHANGED << runningRequests, completedRequests, requestsList,
                  allRequestsCompleted, newMagazines, actions,
                  waitAllPromises, pc, links, linkIdx, skipExisting, exists,
                  result, fired, startNextCalls, skipped, error, variant, calls, orphans, main >>

\* mutant: scrapeInit() leaves the success list of the previous run in place
scrapeInit_keepsMagazines ==
  /\ runningRequests' = 0
  /\ completedRequests' = 0
  /\ requestsList' = << >>
  /\ allRequestsCompleted' = "noop"
  /\ UNCHANGED newMagazines

\* mutant: scrapeInit() leaves the counters of the previous run in place
scrapeInit_keepsCounters ==
  /\ requestsList' = << >>
  /\ allRequestsCompleted' = "noop"
  /\ newMagazines' = << >>
  /\ UNCHANGED << runningRequests, completedRequests >>

\* scrapeInit()
scrapeInit ==
  /\ runningRequests' = 0
  /\ completedRequests' = 0
  /\ requestsList' = << >>
  /\ allRequestsCompleted' = "noop"
  /\ newMagazines' = << >>

\* scrape(directory, skip) up to `await this.getLinks()`, which itself
\* suspends at the login request: scrapeInit() and nothing else.
Scrape(skip) ==
  /\ variant = "prog"
  /\ pc = "idle"
  /\ scrapeInit
  /\ skipExisting' = skip
  /\ pc' = "login"
  /\ calls' = calls + 1
  /\ orphans' = {t \in DOMAIN actions : actions[t].phase \in InFlightPhases}
  /\ UNCHANGED << maxRequests, actions, waitAllPromises, links, linkIdx,
                  exists, result, fired, startNextCalls, skipped, error,
                  variant, main >>

\* A further scrape() call up to its first await: scrapeInit(); the locals
\* of the new call (links, loop position, promise, outcome) start afresh,
\* and so do the per-call histories.
ScrapeCall(skip) ==
  /\ variant = "prog"
  /\ scrapeInit
  /\ skipExisting' = skip
  /\ pc' = "login"
  /\ links' = << >>
  /\ linkIdx' = 0
  /\ waitAllPromises' = "none"
  /\ result' = << >>
  /\ error' = "none"
  /\ fired' = 0
  /\ startNextCalls' = 0
  /\ skipped' = {}
  /\ calls' = calls + 1
  /\ orphans' = {t \in DOMAIN actions : actions[t].phase \in InFlightPhases}
  /\ UNCHANGED << maxRequests, actions, exists, variant, main >>

\* scrape() called again after the previous call resolved or rejected.
ScrapeAgain(skip) ==
  /\ pc \in {"resolved", "rejected"}
  /\ calls < MaxCalls
  /\ ScrapeCall(skip)

\* scrape() called again while the previous call awaits its promise and
\* some of its actions are in flight.  The resolve function of the earlier
\* promise is dropped by scrapeInit(), so the earlier call stays pending
\* and pc follows the new call.
ScrapeOverlap(skip) ==
  /\ pc = "waiting"
  /\ waitAllPromises = "pending"
  /\ \E t \in DOMAIN actions : actions[t].phase \in InFlightPhases
  /\ calls <= MaxOverlaps
  /\ ScrapeCall(skip)

\* requestsList.push({started: false, scrape: scraperFactory(...)})
PushRequest(list, acts, f) ==
  [list |-> Append(list, [started |-> FALSE, scrape |-> Len(acts) + 1]),
   acts |-> Append(acts, [file |-> f, phase |-> "idle", invoked |-> 0])]

\* The for-of loop of scrape() when skipExisting is false: no await inside.
RECURSIVE EnrollAll(_, _, _, _)
EnrollAll(ls, k, list, acts) ==
  IF k > Len(ls) THEN [list |-> list, acts |-> acts]
  ELSE LET p == PushRequest(list, acts, ls[k])
       IN EnrollAll(ls, k + 1, p.list, p.acts)

\* After the loop: create the promise, store its resolve, startNext(), and
\* suspend at `await waitAllPromises`.
Dispatch(list, acts) ==
  /\ allRequestsCompleted' = "resolve"
  /\ CallStartNext(list, acts, runningRequests, completedRequests,
                   "resolve", "pending")
  /\ pc' = "waiting"

\* mutant: the login error is swallowed and the run goes on without links
LoginFail_swallowed ==
  /\ pc = "login"
  /\ error' = "login"
  /\ Dispatch(requestsList, actions)
  /\ UNCHANGED << maxRequests, completedRequests, newMagazines, links,
                  linkIdx, skipExisting, exists, result, skipped, variant, calls, orphans, main >>

\* The login request fails: getLinks() and scrape() reject.
LoginFail ==
  /\ pc = "login"
  /\ pc' = "rejected"
  /\ error' = "login"
  /\ UNCHANGED << maxRequests, runningRequests, completedRequests,
                  requestsList, allRequestsCompleted, newMagazines, actions,
                  waitAllPromises, links, linkIdx, skipExisting, exists,
                  result, fired, startNextCalls, skipped, variant, calls, orphans, main >>

\* The login request succeeds but building the link list throws (JSDOM,
\* url.parse or decodeURI): getLinks() and scrape() reject.
ExtractFail ==
  /\ pc = "login"
  /\ pc' = "rejected"
  /\ error' = "parse"
  /\ UNCHANGED << maxRequests, runningRequests, completedRequests,
                  requestsList, allRequestsCompleted, newMagazines, actions,
                  waitAllPromises, links, linkIdx, skipExisting, exists,
                  result, fired, startNextCalls, skipped, variant, calls, orphans, main >>

\* The login request succeeds and getLinks() returns ls; scrape() goes on
\* to its next await: the first fs.access, or the promise after the loop.
LoginOk(ls) ==
  /\ variant = "prog"
  /\ pc = "login"
  /\ links' = ls
  /\ IF skipExisting /\ ls # << >>
       THEN /\ pc' = "enroll"
            /\ linkIdx' = 1
            /\ UNCHANGED << runningRequests, requestsList,
                            allRequestsCompleted, actions, waitAllPromises,
                            fired, startNextCalls >>
       ELSE LET e == EnrollAll(ls, 1, requestsList, actions)
            IN /\ linkIdx' = Len(ls) + 1
               /\ Dispatch(e.list, e.acts)
  /\ UNCHANGED << maxRequests, completedRequests, newMagazines, skipExisting,
                  exists, result, skipped, error, variant, calls, orphans, main >>

\* mutant: the access promise is not awaited, so nothing is ever thrown
AccessResolves_notAwaited(f, present) == TRUE

\* `await fs.access(filename); continue;`: the access promise resolves
\* when the path is present and rejects (caught, ignored) when it is not.
AccessResolves(f, present) == f \in present

\* `await fs.access(filename)` settles for link linkIdx: when it resolves the
\* link is skipped, when it rejects the link is enrolled; then the loop goes
\* on to the next fs.access or leaves the loop.
Access ==
  /\ variant = "prog"
  /\ pc = "enroll"
  /\ LET f == links[linkIdx]
         p == IF AccessResolves(f, exists)
                THEN [list |-> requestsList, acts |-> actions]
                ELSE PushRequest(requestsList, actions, f)
     IN /\ skipped' = IF AccessResolves(f, exists)
                         THEN skipped \cup {f} ELSE skipped
        /\ linkIdx' = linkIdx + 1
        /\ IF linkIdx < Len(links)
             THEN /\ requestsList' = p.list
                  /\ actions' = p.acts
                  /\ UNCHANGED << pc, runningRequests, allRequestsCompleted,
                                  waitAllPromises, fired, startNextCalls >>
             ELSE Dispatch(p.list, p.acts)
  /\ UNCHANGED << maxRequests, completedRequests, newMagazines, links,
                  skipExisting, exists, result, error, variant, calls, orphans, main >>

\* `await waitAllPromises` resumes: scrape() returns this.newMagazines.
Resolve ==
  /\ pc = "waiting"
  /\ waitAllPromises = "resolved"
  /\ pc' = "resolved"
  /\ result' = newMagazines
  /\ UNCHANGED << maxRequests, runningRequests, completedRequests,
                  requestsList, allRequestsCompleted, newMagazines, actions,
                  waitAllPromises, links, linkIdx, skipExisting, exists,
                  fired, startNextCalls, skipped, error, variant, calls, orphans, main >>

\* ------------------------------------------------- the download closure
\* request.get resolved: go on to `await fs.mkdir`.
FetchOk(t) ==
  /\ t \in DOMAIN actions
  /\ actions[t].phase = "fetch"
  /\ actions' = [actions EXCEPT ![t].phase = "mkdir"]
  /\ UNCHANGED << maxRequests, runningRequests, completedRequests,
                  requestsList, allRequestsCompleted, newMagazines,
                  waitAllPromises, pc, links, linkIdx, skipExisting, exists,
                  result, fired, startNextCalls, skipped, error, variant, calls, orphans, main >>

\* fs.mkdir resolved: go on to `await fs.writeFile`.
MkdirOk(t) ==
  /\ t \in DOMAIN actions
  /\ actions[t].phase = "mkdir"
  /\ actions' = [actions EXCEPT ![t].phase = "write"]
  /\ UNCHANGED << maxRequests, runningRequests, completedRequests,
                  requestsList, allRequestsCompleted, newMagazines,
                  waitAllPromises, pc, links, linkIdx, skipExisting, exists,
                  result, fired, startNextCalls, skipped, error, variant, calls, orphans, main >>

\* mutant: the finally block forgets `this.runningRequests--`
Finally_noDecrement(acts) ==
  /\ completedRequests' = completedRequests + 1
  /\ CallStartNext(requestsList, acts, runningRequests,
                   completedRequests + 1, allRequestsCompleted,
                   waitAllPromises)

\* The finally block: runningRequests--, completedRequests++, startNext().
Finally(acts) ==
  /\ completedRequests' = completedRequests + 1
  /\ CallStartNext(requestsList, acts, runningRequests - 1,
                   completedRequests + 1, allRequestsCompleted,
                   waitAllPromises)

\* fs.writeFile resolved: push the path, then the finally block.
WriteOk(t) ==
  /\ variant = "prog"
  /\ t \in DOMAIN actions
  /\ actions[t].phase = "write"
  /\ newMagazines' = Append(newMagazines, actions[t].file)
  /\ exists' = exists \cup {actions[t].file}
  /\ Finally([actions EXCEPT ![t].phase = "ok"])
  /\ UNCHANGED << maxRequests, allRequestsCompleted, pc, links, linkIdx,
                  skipExisting, result, skipped, error, variant, calls, orphans, main >>

\* mutant: the bookkeeping sits at the end of the try block, not in finally
Fail_noFinally(t, left) ==
  /\ variant = "prog"
  /\ t \in DOMAIN actions
  /\ actions[t].phase \in InFlightPhases
  /\ actions' = [actions EXCEPT ![t].phase = "failed"]
  /\ UNCHANGED << maxRequests, runningRequests, completedRequests,
                  requestsList, allRequestsCompleted, newMagazines,
                  waitAllPromises, pc, links, linkIdx, skipExisting, exists,
                  result, fired, startNextCalls, skipped, error, variant, calls, orphans, main >>

\* One of the three awaits rejected: the catch block, then the finally
\* block.  A rejected writeFile may leave a (partial) file behind.
Fail(t, left) ==
  /\ variant = "prog"
  /\ t \in DOMAIN actions
  /\ actions[t].phase \in InFlightPhases
  /\ exists' = IF left /\ actions[t].phase = "write"
                 THEN exists \cup {actions[t].file} ELSE exists
  /\ Finally([actions EXCEPT ![t].phase = "failed"])
  /\ UNCHANGED << maxRequests, allRequestsCompleted, newMagazines, pc, links,
                  linkIdx, skipExisting, result, skipped, error, variant, calls, orphans, main >>

\* ------------------------------------- earlier revision (part_000)
\* startNext() of part_000: the same loop, no completion check.
CallStartNextOld(list, acts, running) ==
  LET r == startNextLoop(1, list, acts, running)
  IN /\ requestsList' = r.list
     /\ actions' = r.acts
     /\ runningRequests' = r.running
     /\ startNextCalls' = startNextCalls + 1

\* scrape(skip) of part_000 up to `await this.getLinks()`: no reset.
ScrapeOld(skip) ==
  /\ variant = "part_000"
  /\ pc = "idle"
  /\ skipExisting' = skip
  /\ pc' = "login"
  /\ UNCHANGED << maxRequests, runningRequests, completedRequests,
                  requestsList, allRequestsCompleted, newMagazines, actions,
                  waitAllPromises, links, linkIdx, exists, result, fired,
                  startNextCalls, skipped, error, variant, calls, orphans, main >>

\* The loop of part_000 when skipExisting is false: push, then startNext(),
\* for every link, with no await in between.
RECURSIVE EnrollAllOld(_, _, _, _, _)
EnrollAllOld(ls, k, list, acts, running) ==
  IF k > Len(ls) THEN [list |-> list, acts |-> acts, running |-> running]
  ELSE LET p == PushRequest(list, acts, ls[k])
           r == startNextLoop(1, p.list, p.acts, running)
       IN EnrollAllOld(ls, k + 1, r.list, r.acts, r.running)

\* getLinks() returns ls in part_000; scrape() resolves when the loop ends.
LoginOkOld(ls) ==
  /\ variant = "part_000"
  /\ pc = "login"
  /\ links' = ls
  /\ IF skipExisting /\ ls # << >>
       THEN /\ pc' = "enroll"
            /\ linkIdx' = 1
            /\ UNCHANGED << runningRequests, requestsList, actions,
                            startNextCalls >>
       ELSE LET e == EnrollAllOld(ls, 1, requestsList, actions,
                                  runningRequests)
            IN /\ linkIdx' = Len(ls) + 1
               /\ requestsList' = e.list
               /\ actions' = e.acts
               /\ runningRequests' = e.running
               /\ startNextCalls' = startNextCalls + Len(ls)
               /\ pc' = "resolved"
  /\ UNCHANGED << maxRequests, completedRequests, allRequestsCompleted,
                  newMagazines, waitAllPromises, skipExisting, exists,
                  result, fired, skipped, error, variant, calls, orphans, main >>

\* `await fs.access(filename)` settles in part_000: skip, or push and
\* startNext(); scrape() resolves after the last link.
AccessOld ==
  /\ variant = "part_000"
  /\ pc = "enroll"
  /\ LET f == links[linkIdx]
     IN /\ skipped' = IF AccessResolves(f, exists)
                         THEN skipped \cup {f} ELSE skipped
        /\ IF AccessResolves(f, exists)
             THEN UNCHANGED << requestsList, actions, runningRequests,
                               startNextCalls >>
             ELSE LET p == PushRequest(requestsList, actions, f)
                  IN CallStartNextOld(p.list, p.acts, runningRequests)
  /\ linkIdx' = linkIdx + 1
  /\ pc' = IF linkIdx < Len(links) THEN "enroll" ELSE "resolved"
  /\ UNCHANGED << maxRequests, completedRequests, allRequestsCompleted,
                  newMagazines, waitAllPromises, links, skipExisting, exists,
                  result, fired, error, variant, calls, orphans, main >>

\* The finally block of part_000: runningRequests--, startNext().
FinallyOld(acts) ==
  CallStartNextOld(requestsList, acts, runningRequests - 1)

\* fs.writeFile resolved in part_000.
WriteOkOld(t) ==
  /\ variant = "part_000"
  /\ t \in DOMAIN actions
  /\ actions[t].phase = "write"
  /\ exists' = exists \cup {actions[t].file}
  /\ FinallyOld([actions EXCEPT ![t].phase = "ok"])
  /\ UNCHANGED << maxRequests, completedRequests, allRequestsCompleted,
                  newMagazines, waitAllPromises, pc, links, linkIdx,
                  skipExisting, result, fired, skipped, error, variant, calls, orphans, main >>

\* One of the three awaits rejected in part_000.
FailOld(t, left) ==
  /\ variant = "part_000"
  /\ t \in DOMAIN actions
  /\ actions[t].phase \in InFlightPhases
  /\ exists' = IF left /\ actions[t].phase = "write"
                 THEN exists \cup {actions[t].file} ELSE exists
  /\ FinallyOld([actions EXCEPT ![t].phase = "failed"])
  /\ UNCHANGED << maxRequests, completedRequests, allRequestsCompleted,
                  newMagazines, waitAllPromises, pc, links, linkIdx,
                  skipExisting, result, fired, skipped, error, variant, calls, orphans, main >>

Tasks == 1..MaxLinks

Next ==
  \/ \E n \in CapValues : SetMaxRequests(n)
  \/ \E skip \in BOOLEAN : Scrape(skip)
  \/ LoginFail
  \/ ExtractFail
  \/ \E ls \in LinkLists : LoginOk(ls)
  \/ Access
  \/ Resolve
  \/ \E t \in Tasks : FetchOk(t)
  \/ \E t \in Tasks : MkdirOk(t)
  \/ \E t \in Tasks : WriteOk(t)
  \/ \E t \in Tasks, left \in BOOLEAN : Fail(t, left)

Spec == Init /\ [][Next]_vars

\* Every pending I/O operation of a launched action settles, and a resolved
\* promise resumes its awaiter: the event loop runs every ready callback.
Fairness ==
  /\ \A t \in Tasks :
       WF_vars(FetchOk(t) \/ MkdirOk(t) \/ WriteOk(t)
                 \/ \E left \in BOOLEAN : Fail(t, left))
  /\ WF_vars(Resolve)

LiveSpec == Init /\ [][Next]_vars /\ Fairness

\* maxRequests setter called while a run is in progress.
SetMaxRequestsRunning(n) ==
  /\ pc \in {"login", "enroll", "waiting"}
  /\ maxRequests # n
  /\ maxRequests' = n
  /\ UNCHANGED << runningRequests, completedRequests, requestsList,
                  allRequestsCompleted, newMagazines, actions,
                  waitAllPromises, pc, links, linkIdx, skipExisting, exists,
                  result, fired, startNextCalls, skipped, error, variant, calls, orphans, main >>

NextReconf ==
  \/ Next
  \/ \E n \in CapValues : SetMaxRequestsRunning(n)

\* A single run of prog.ts during which the cap may be set at any time.
SpecReconf == Init /\ [][NextReconf]_vars

MultiTasks == 1..(MaxCalls * MaxMultiLinks)
MultiLinkLists == SeqsUpTo(Files, MaxMultiLinks)

NextSeq ==
  \/ \E n \in CapValues : SetMaxRequests(n)
  \/ \E skip \in BOOLEAN : Scrape(skip)
  \/ \E skip \in BOOLEAN : ScrapeAgain(skip)
  \/ LoginFail
  \/ ExtractFail
  \/ \E ls \in MultiLinkLists : LoginOk(ls)
  \/ Access
  \/ Resolve
  \/ \E t \in MultiTasks : FetchOk(t)
  \/ \E t \in MultiTasks : MkdirOk(t)
  \/ \E t \in MultiTasks : WriteOk(t)
  \/ \E t \in MultiTasks, left \in BOOLEAN : Fail(t, left)

\* Sequential scrape() calls on one instance.
SpecSeq == Init /\ [][NextSeq]_vars

OverlapTasks == 1..((MaxOverlaps + 1) * MaxOverlapLinks)
OverlapLinkLists == SeqsUpTo(Files, MaxOverlapLinks)

NextOverlap ==
  \/ \E n \in CapValues : SetMaxRequests(n)
  \/ \E skip \in BOOLEAN : Scrape(skip)
  \/ \E skip \in BOOLEAN : ScrapeOverlap(skip)
  \/ LoginFail
  \/ ExtractFail
  \/ \E ls \in OverlapLinkLists : LoginOk(ls)
  \/ Access
  \/ Resolve
  \/ \E t \in OverlapTasks : FetchOk(t)
  \/ \E t \in OverlapTasks : MkdirOk(t)
  \/ \E t \in OverlapTasks : WriteOk(t)
  \/ \E t \in OverlapTasks, left \in BOOLEAN : Fail(t, left)

\* scrape() calls on one instance that overlap.
SpecOverlap == Init /\ [][NextOverlap]_vars

\* ------------------------------------- main and uploadNewMagazines
\* Paths are sequences of characters.  File names as getLinks() yields them:
\* a base name followed by a non-empty extension.
Names ==
  << << "a", ".", "p", "d", "f" >>,
     << "b", ".", "e", "p", "u", "b" >>,
     << "c", ".", "P", "D", "F" >>,
     << "d", ".", "p", "d", "f", ".", "z", "i", "p" >>,
     << "e", "p", "d", "f", ".", "p", "d", "f" >>,
     << "f", ".", "p", "d" >> >>

\* path.join(baseFolder, link.id, link.filename), with a one-letter folder
PathOfName(name) == << "m", "/" >> \o name

\* destination path of file f
PathOf(f) == PathOfName(Names[((f - 1) % Len(Names)) + 1])

SamplePaths == {PathOfName(Names[i]) : i \in DOMAIN Names}

LineTerminators == {"\n", "\r"}

\* mutant: the pattern has lost its `$` anchor
MatchesPdf_unanchored(path) ==
  \E i \in 2..Len(path) :
    /\ i + 3 <= Len(path)
    /\ path[i] = "." /\ path[i + 1] = "p" /\ path[i + 2] = "d" /\ path[i + 3] = "f"
    /\ path[i - 1] \notin LineTerminators

\* m.match(/.+\.pdf$/) !== null : ".pdf" at the very end, with at least one
\* character that is not a line terminator right before it.
MatchesPdf(path) ==
  /\ Len(path) > 4
  /\ SubSeq(path, Len(path) - 3, Len(path)) = << ".", "p", "d", "f" >>
  /\ path[Len(path) - 4] \notin LineTerminators

\* mutant: one variable is enough to enable the upload
SlackEnabled_either(token, channels) == token \/ channels

\* `if (slackToken && slackChannels)`
SlackEnabled(token, channels) == token /\ channels

\* uploadNewMagazines(token, channels, magazines) up to its first await:
\* filter, return when nothing is left, else create the client and start
\* the first upload.
uploadNewMagazines(m, magazines) ==
  LET pdfMagazines == SelectSeq(magazines, MatchesPdf)
  IN IF Len(pdfMagazines) = 0
       THEN [m EXCEPT !.pc = "done", !.called = TRUE,
                      !.magazines = magazines, !.pdf = pdfMagazines]
       ELSE [m EXCEPT !.pc = "uploading", !.called = TRUE,
                      !.magazines = magazines, !.pdf = pdfMagazines,
                      !.client = TRUE, !.idx = 1]

MainRecords(pcs, magazineLists) ==
  [pc : pcs, creds : BOOLEAN, token : BOOLEAN, channels : BOOLEAN,
   called : {FALSE}, magazines : magazineLists, pdf : {<< >>}, idx : {0},
   uploaded : {<< >>}, client : {FALSE}, caught : {"none"}, failedAt : {0}]

\* main up to `await scraper.scrape(directory)`: the environment check, the
\* constructor, maxRequests = 5 and scrape() up to its first await.
MainRun ==
  /\ main.pc = "start"
  /\ pc = "idle"
  /\ IF ~main.creds
       THEN /\ main' = [main EXCEPT !.pc = "done"]
            /\ UNCHANGED << maxRequests, runningRequests, completedRequests,
                            requestsList, allRequestsCompleted, newMagazines,
                            skipExisting, pc, calls, orphans >>
       ELSE /\ maxRequests' = MainMaxRequests
            /\ scrapeInit
            /\ skipExisting' = TRUE
            /\ pc' = "login"
            /\ calls' = calls + 1
            /\ orphans' = {}
            /\ main' = [main EXCEPT !.pc = "scraping"]
  /\ UNCHANGED << actions, waitAllPromises, links, linkIdx, exists, result,
                  fired, startNextCalls, skipped, error, variant >>

\* scrape() resolved: log, then the upload when Slack is configured.
MainScrapeResolved ==
  /\ main.pc = "scraping"
  /\ pc = "resolved"
  /\ main' = IF SlackEnabled(main.token, main.channels)
               THEN uploadNewMagazines(main, [i \in DOMAIN result |-> PathOf(result[i])])
               ELSE [main EXCEPT !.pc = "done"]
  /\ UNCHANGED << maxRequests, runningRequests, completedRequests,
                  requestsList, allRequestsCompleted, newMagazines, actions,
                  waitAllPromises, pc, links, linkIdx, skipExisting, exists,
                  result, fired, startNextCalls, skipped, error, variant,
                  calls, orphans >>

\* scrape() rejected: the catch block of main logs the error.
MainScrapeRejected ==
  /\ main.pc = "scraping"
  /\ pc = "rejected"
  /\ main' = [main EXCEPT !.pc = "done", !.caught = "scrape"]
  /\ UNCHANGED << maxRequests, runningRequests, completedRequests,
                  requestsList, allRequestsCompleted, newMagazines, actions,
                  waitAllPromises, pc, links, linkIdx, skipExisting, exists,
                  result, fired, startNextCalls, skipped, error, variant,
                  calls, orphans >>

\* uploadNewMagazines called on a list of paths.
UploadCall ==
  /\ main.pc = "call"
  /\ main' = uploadNewMagazines(main, main.magazines)
  /\ UNCHANGED << maxRequests, runningRequests, completedRequests,
                  requestsList, allRequestsCompleted, newMagazines, actions,
                  waitAllPromises, pc, links, linkIdx, skipExisting, exists,
                  result, fired, startNextCalls, skipped, error, variant,
                  calls, orphans >>

\* `await web.files.upload(...)` resolved: the next upload starts, or the
\* function returns.
UploadOk ==
  /\ main.pc = "uploading"
  /\ main' = [main EXCEPT
                !.uploaded = Append(main.uploaded, main.pdf[main.idx]),
                !.idx = main.idx + 1,
                !.pc = IF main.idx < Len(main.pdf) THEN "uploading" ELSE "done"]
  /\ UNCHANGED << maxRequests, runningRequests, completedRequests,
                  requestsList, allRequestsCompleted, newMagazines, actions,
                  waitAllPromises, pc, links, linkIdx, skipExisting, exists,
                  result, fired, startNextCalls, skipped, error, variant,
                  calls, orphans >>

\* mutant: a failed upload is logged inside the loop and the loop goes on
UploadFail_continues ==
  /\ main.pc = "uploading"
  /\ main' = [main EXCEPT
                !.failedAt = main.idx,
                !.idx = main.idx + 1,
                !.pc = IF main.idx < Len(main.pdf) THEN "uploading" ELSE "done"]
  /\ UNCHANGED << maxRequests, runningRequests, completedRequests,
                  requestsList, allRequestsCompleted, newMagazines, actions,
                  waitAllPromises, pc, links, linkIdx, skipExisting, exists,
                  result, fired, startNextCalls, skipped, error, variant,
                  calls, orphans >>

\* `await web.files.upload(...)` rejected: uploadNewMagazines rejects and
\* the error reaches its caller, the catch block of main.
UploadFail ==
  /\ main.pc = "uploading"
  /\ main' = [main EXCEPT !.pc = "done", !.caught = "upload",
                          !.failedAt = main.idx]
  /\ UNCHANGED << maxRequests, runningRequests, completedRequests,
                  requestsList, allRequestsCompleted, newMagazines, actions,
                  waitAllPromises, pc, links, linkIdx, skipExisting, exists,
                  result, fired, startNextCalls, skipped, error, variant,
                  calls, orphans >>

InitMain ==
  /\ InitFields
  /\ variant = "prog"
  /\ main \in MainRecords({"start"}, {<< >>})

NextMain ==
  \/ MainRun
  \/ LoginFail
  \/ ExtractFail
  \/ \E ls \in LinkLists : LoginOk(ls)
  \/ Access
  \/ Resolve
  \/ \E t \in Tasks : FetchOk(t)
  \/ \E t \in Tasks : MkdirOk(t)
  \/ \E t \in Tasks : WriteOk(t)
  \/ \E t \in Tasks, left \in BOOLEAN : Fail(t, left)
  \/ MainScrapeResolved
  \/ MainScrapeRejected
  \/ UploadOk
  \/ UploadFail

\* The program as main runs it.
SpecMain == InitMain /\ [][NextMain]_vars

InitUpload ==
  /\ InitFields
  /\ variant = "prog"
  /\ main \in MainRecords({"call"}, SeqsUpTo(SamplePaths, MaxMagazines))
  /\ main.creds /\ main.token /\ main.channels

NextUpload ==
  \/ UploadCall
  \/ UploadOk
  \/ UploadFail

\* uploadNewMagazines on its own, applied to a list of paths.
SpecUpload == InitUpload /\ [][NextUpload]_vars

\* Both revisions of the scraper: the instance runs one of the two files.
InitBoth == InitFields /\ variant \in {"prog", "part_000"} /\ main = NoMain

NextBoth ==
  \/ Next
  \/ \E skip \in BOOLEAN : ScrapeOld(skip)
  \/ \E ls \in LinkLists : LoginOkOld(ls)
  \/ AccessOld
  \/ \E t \in Tasks : WriteOkOld(t)
  \/ \E t \in Tasks, left \in BOOLEAN : FailOld(t, left)

SpecBoth == InitBoth /\ [][NextBoth]_vars

\* ============================================================ properties
TaskIds == DOMAIN actions
InFlight == {t \in TaskIds : actions[t].phase \in InFlightPhases}
Unstarted == {t \in TaskIds : actions[t].phase = "idle"}
Finished == {t \in TaskIds : actions[t].phase \in FinishedPhases}

\* C1: with a non-negative cap fixed before the run, the number of download
\* actions launched and not yet finished never exceeds maxRequests, in
\* either revision and under every interleaving of completions.
C1_ConcurrencyCap ==
  maxRequests >= 0 => Cardinality(InFlight) <= maxRequests

\* the cap is binding: it is full, a task waits, and a completion has
\* already re-entered startNext
C1_Witness ==
  /\ maxRequests >= 1
  /\ Cardinality(InFlight) = maxRequests
  /\ Unstarted # {}
  /\ Finished # {}

\* C2: every enrolled task's action is invoked at most once however often
\* startNext is re-entered; a started task is never launched again and a
\* finished one never leaves its final state.
C2_NoDoubleDispatch ==
  /\ [](\A t \in TaskIds : actions[t].invoked <= 1)
  /\ [][\A t \in TaskIds :
          /\ actions[t].phase # "idle" => actions'[t].invoked = actions[t].invoked
          /\ actions[t].phase \in FinishedPhases => actions'[t].phase = actions[t].phase
          /\ \A i \in DOMAIN requestsList :
               requestsList[i].started =>
                 i \in DOMAIN requestsList' /\ requestsList'[i].started]_vars

\* startNext has been re-entered from a completion handler while a started
\* task was still in flight and another one got its turn
C2_Witness ==
  /\ startNextCalls >= 3
  /\ Cardinality(Finished) >= 2
  /\ InFlight # {}
  /\ \A t \in TaskIds : actions[t].invoked = 1

\* C3: in a single run scrape() has not resolved (and its promise has not
\* been resolved) while an enrolled task is unstarted or in flight.
C3_NoEarlyResolution ==
  (pc = "resolved" \/ waitAllPromises = "resolved") =>
    /\ \A i \in DOMAIN requestsList :
         /\ requestsList[i].started
         /\ actions[requestsList[i].scrape].phase \in FinishedPhases
    /\ Unstarted = {} /\ InFlight = {}

\* scrape() resolved after a batch larger than the cap, with a failure in it
C3_Witness ==
  /\ pc = "resolved"
  /\ Len(requestsList) > maxRequests
  /\ \E t \in TaskIds : actions[t].phase = "failed"
  /\ \E t \in TaskIds : actions[t].phase = "ok"

\* C7: in a single run with a cap >= 1 the completion signal is fired exactly
\* once: never twice, only by the startNext pass in which completedRequests
\* first equals the number of enrolled tasks, and always by that pass.
C7_SingleSignal ==
  /\ [](fired <= 1)
  /\ []((maxRequests >= 1 /\ pc \in {"waiting", "resolved"}
          /\ completedRequests = Len(requestsList)) => fired = 1)
  /\ [](pc = "resolved" => fired = 1)
  /\ [][fired' # fired =>
          /\ fired = 0 /\ fired' = 1
          /\ startNextCalls' = startNextCalls + 1
          /\ completedRequests' = Len(requestsList')
          /\ (completedRequests < Len(requestsList') \/ pc # "waiting")]_vars

\* the signal was fired by the last completion of a mixed batch
C7_Witness ==
  /\ fired = 1
  /\ maxRequests >= 1
  /\ Len(requestsList) >= 2
  /\ startNextCalls = Len(requestsList) + 1
  /\ \E t \in TaskIds : actions[t].phase = "failed"
  /\ \E t \in TaskIds : actions[t].phase = "ok"

\* C8: when no task is enrolled, the startNext pass made by scrape() fires
\* the signal, and scrape() resolves with an empty list without any download
\* action invoked and without any completion event.
C8_EmptyBatch ==
  /\ [][(pc # "waiting" /\ pc' = "waiting" /\ requestsList' = << >>) =>
          /\ fired' = 1 /\ waitAllPromises' = "resolved"
          /\ startNextCalls' = 1]_vars
  /\ []((pc = "resolved" /\ requestsList = << >>) =>
          /\ result = << >>
          /\ actions = << >>
          /\ startNextCalls = 1
          /\ fired = 1)
  /\ []((pc = "waiting" /\ requestsList = << >>) => ENABLED Resolve)

\* every discovered file already existed and scrape() resolved empty
C8_Witness ==
  /\ pc = "resolved"
  /\ requestsList = << >>
  /\ links # << >>
  /\ skipExisting
  /\ result = << >>

\* no link was discovered and scrape() resolved empty
C8_WitnessNoLinks ==
  pc = "resolved" /\ links = << >> /\ result = << >>

Range(q) == {q[i] : i \in DOMAIN q}
Count(q, x) == Cardinality({i \in DOMAIN q : q[i] = x})
Launched == {u \in TaskIds : actions[u].phase = "idle" /\ actions'[u].phase = "fetch"}
ListFinished ==
  \A i \in DOMAIN requestsList :
    /\ requestsList[i].started
    /\ actions[requestsList[i].scrape].phase \in FinishedPhases
    /\ actions[requestsList[i].scrape].invoked = 1

\* C4: with a cap >= 1 fixed during the run and every launched action
\* eventually finishing, every enrolled task is eventually started and
\* completed and scrape() eventually resolves.
C4_RunCompletes ==
  /\ (pc = "waiting" /\ maxRequests >= 1) ~> (pc = "resolved" /\ ListFinished)
  /\ \A t \in Tasks :
       (pc = "waiting" /\ maxRequests >= 1 /\ t \in TaskIds)
         ~> (t \in TaskIds /\ actions[t].phase # "idle")

\* a batch larger than the cap ran to the end
C4_Witness ==
  /\ pc = "resolved"
  /\ maxRequests >= 1
  /\ Len(requestsList) > maxRequests
  /\ ListFinished

\* C5: when scrape() resolves, a destination path is in the returned list
\* exactly once if a task with that path finished without error and not at
\* all otherwise; the path of a failed task never appears.
C5_ResultContents ==
  pc = "resolved" =>
    /\ \A f \in Files :
         Count(result, f) =
           IF \E t \in TaskIds : actions[t].file = f /\ actions[t].phase = "ok"
             THEN 1 ELSE 0
    /\ \A t \in TaskIds :
         actions[t].phase = "failed" => actions[t].file \notin Range(result)

\* C6: a failing action is contained: it updates the counters exactly as a
\* successful one, leaves its siblings alone, lets waiting tasks be
\* dispatched, adds nothing to the result, never rejects scrape(), and the
\* run still resolves.
C6_FailureContained ==
  /\ [][\A t \in TaskIds :
          (actions[t].phase \in InFlightPhases /\ actions'[t].phase = "failed") =>
            /\ completedRequests' = completedRequests + 1
            /\ runningRequests' = runningRequests - 1 + Cardinality(Launched)
            /\ newMagazines' = newMagazines
            /\ pc' # "rejected" /\ error' = "none"
            /\ \A u \in TaskIds \ {t} : u \notin Launched => actions'[u] = actions[u]
            /\ (Unstarted # {} /\ runningRequests - 1 < maxRequests) => Launched # {}]_vars
  /\ [][\A t \in TaskIds :
          (actions[t].phase = "write" /\ actions'[t].phase = "ok") =>
            /\ completedRequests' = completedRequests + 1
            /\ runningRequests' = runningRequests - 1 + Cardinality(Launched)]_vars
  /\ [](pc = "rejected" => actions = << >>)
  /\ (\E t \in TaskIds : actions[t].phase = "failed") ~> (pc = "resolved")

\* a failure freed a slot for a waiting task and the run resolved
C6_Witness ==
  /\ pc = "resolved"
  /\ Len(requestsList) > maxRequests
  /\ \E i \in DOMAIN requestsList :
       /\ i <= maxRequests
       /\ actions[requestsList[i].scrape].phase = "failed"
  /\ \E t \in TaskIds : actions[t].phase = "ok"

\* C9: with skipExisting a link is enrolled if and only if its destination
\* path is absent when fs.access is made, a skipped link gets no task and
\* no place in the result; without skipExisting every link is enrolled.
C9_ExistingFileSkip ==
  /\ [][(pc = "enroll" /\ linkIdx' = linkIdx + 1) =>
          LET f == links[linkIdx]
              n == Len(actions)
          IN IF f \in exists
               THEN Len(actions') = n /\ Len(requestsList') = Len(requestsList)
               ELSE /\ Len(actions') = n + 1
                    /\ actions'[n + 1].file = f
                    /\ requestsList' # << >>
                    /\ requestsList'[Len(requestsList')].scrape = n + 1]_vars
  /\ [][(pc = "login" /\ pc' \notin {"login", "rejected"} /\ ~skipExisting) =>
          /\ Len(requestsList') = Len(links')
          /\ \A k \in DOMAIN links' :
               actions'[requestsList'[k].scrape].file = links'[k]]_vars
  /\ [](\A f \in skipped :
          /\ f \notin Range(result) \cup Range(newMagazines)
          /\ variant = "prog" => \A t \in TaskIds : actions[t].file # f)

\* a run that skipped one link and enrolled and downloaded another
C9_Witness ==
  /\ skipExisting
  /\ skipped # {}
  /\ \E t \in TaskIds : actions[t].phase = "ok"
  /\ pc = "resolved"

\* C10: when the login request fails scrape() rejects with that error, no
\* task is enrolled, startNext is never called and no action is invoked.
C10_LoginFailureAborts ==
  /\ [][(pc = "login" /\ error' = "login") => pc' = "rejected"]_vars
  /\ [](error = "login" =>
          /\ pc = "rejected"
          /\ requestsList = << >> /\ actions = << >>
          /\ startNextCalls = 0 /\ fired = 0
          /\ runningRequests = 0 /\ completedRequests = 0)
  /\ [][error = "login" =>
          UNCHANGED << requestsList, actions, startNextCalls, pc >>]_vars

\* scrape() rejected with the login error
C10_Witness ==
  pc = "rejected" /\ error = "login"

ListStarted == {i \in DOMAIN requestsList : requestsList[i].started}

\* C11: setting maxRequests during a run leaves the actions in flight and
\* the bookkeeping untouched, and from then on a task is launched only by a
\* startNext pass that saw runningRequests below the value then in force.
C11_CapReconfiguration ==
  /\ [][maxRequests' # maxRequests =>
          UNCHANGED << actions, requestsList, runningRequests,
                       completedRequests, newMagazines, waitAllPromises,
                       pc, fired, startNextCalls >>]_vars
  /\ [][Launched # {} =>
          /\ maxRequests' = maxRequests
          /\ runningRequests' <= maxRequests
          /\ runningRequests' - Cardinality(Launched) < maxRequests
          /\ Cardinality({t \in TaskIds : actions'[t].phase \in InFlightPhases})
               <= maxRequests]_vars

\* the cap was lowered from 2 or more to 1 while two actions were in flight:
\* both went on, the second finished, and the third task was not admitted
\* because the first still fills the new cap
C11_Witness ==
  /\ pc = "waiting"
  /\ maxRequests = 1
  /\ Len(requestsList) = 3
  /\ actions[requestsList[1].scrape].phase \in InFlightPhases
  /\ actions[requestsList[2].scrape].phase \in FinishedPhases
  /\ actions[requestsList[3].scrape].phase = "idle"

\* C15: tasks are admitted in enrollment order: the started tasks are always
\* a prefix of the task list, in either revision.
C15_EnrollmentOrder ==
  \A i, j \in DOMAIN requestsList :
    (i < j /\ requestsList[j].started) => requestsList[i].started

\* a proper, non-empty prefix is started and a completion has re-entered
\* startNext
C15_Witness ==
  /\ ListStarted # {}
  /\ ListStarted # DOMAIN requestsList
  /\ Cardinality(ListStarted) >= 2
  /\ Finished # {}

\* C17: in a single run, between steps, runningRequests is the number of
\* started, unfinished tasks, completedRequests the number of finished ones,
\* their sum the number of started ones, and both stay within 0 and the
\* number of enrolled tasks.
C17_CounterConsistency ==
  /\ runningRequests = Cardinality(InFlight)
  /\ completedRequests = Cardinality(Finished)
  /\ runningRequests + completedRequests = Cardinality(ListStarted)
  /\ 0 <= runningRequests
  /\ completedRequests <= Len(requestsList)
  /\ \A i \in DOMAIN requestsList :
       requestsList[i].started <=> actions[requestsList[i].scrape].phase # "idle"

\* all three kinds of task at once: finished, in flight and waiting
C17_Witness ==
  /\ completedRequests >= 1
  /\ runningRequests >= 1
  /\ Unstarted # {}
  /\ \E t \in TaskIds : actions[t].phase = "failed"

\* C18: with maxRequests <= 0 and a non-empty batch, startNext returns at the
\* cap check: no action is invoked, the completion check is not reached, and
\* scrape() stays pending for ever (nothing is left that could run).
C18_NonPositiveCapBlocks ==
  /\ []((maxRequests <= 0 /\ requestsList # << >> /\ pc # "enroll") =>
          /\ pc = "waiting"
          /\ waitAllPromises = "pending"
          /\ fired = 0
          /\ startNextCalls = 1
          /\ \A t \in TaskIds : actions[t].invoked = 0 /\ actions[t].phase = "idle"
          /\ ~ENABLED Next)
  /\ []((maxRequests <= 0 /\ pc = "resolved") => requestsList = << >>)

\* the run is stuck with every task waiting
C18_Witness ==
  /\ maxRequests <= 0
  /\ pc = "waiting"
  /\ Len(requestsList) >= 2
  /\ startNextCalls = 1

\* C19: in a single run with a fixed cap >= 1, once dispatching has begun a
\* task waits only while exactly maxRequests actions are in flight.
C19_WorkConservation ==
  (maxRequests >= 1 /\ pc \in {"waiting", "resolved"} /\ Unstarted # {}) =>
    /\ Cardinality(InFlight) = maxRequests
    /\ runningRequests = maxRequests

\* a completion handler has refilled the freed slot and a task still waits
C19_Witness ==
  /\ maxRequests >= 1
  /\ pc = "waiting"
  /\ Unstarted # {}
  /\ Finished # {}
  /\ Cardinality(InFlight) = maxRequests

\* closures enrolled by the scrape() call now in progress
Current == {requestsList[i].scrape : i \in DOMAIN requestsList}

\* C12: with sequential scrape() calls, every call starts from zeroed
\* counters, an empty task list and an empty success list; the result of a
\* call holds one path per task of that call that succeeded and nothing of
\* an earlier call, and no task of an earlier call is launched again.
C12_PerRunReset ==
  /\ [][calls' # calls =>
          /\ runningRequests' = 0 /\ completedRequests' = 0
          /\ requestsList' = << >> /\ newMagazines' = << >>]_vars
  /\ [](pc = "login" =>
          /\ runningRequests = 0 /\ completedRequests = 0
          /\ requestsList = << >> /\ newMagazines = << >>)
  /\ [](pc = "resolved" =>
          \A f \in Files :
            Count(result, f) =
              Cardinality({t \in Current : actions[t].file = f /\ actions[t].phase = "ok"}))
  /\ [](\A t \in TaskIds : actions[t].invoked <= 1)
  /\ [][\A t \in TaskIds \ Current :
          t \in DOMAIN actions' /\ actions'[t] = actions[t]]_vars

\* a second call resolved after an earlier call had downloaded something
C12_Witness ==
  /\ calls = 2
  /\ pc = "resolved"
  /\ \E t \in TaskIds \ Current : actions[t].phase = "ok"
  /\ \E t \in Current : actions[t].phase = "ok"
  /\ \E t \in Current : actions[t].phase = "failed"

\* C16: when scrape() is called while actions of the earlier call are in
\* flight, their later completions update the counters reset for the new
\* call: runningRequests is short by, and completedRequests ahead by, the
\* number of such completions, so neither describes the new task list.
C16_OverlapCorruptsCounters ==
  /\ [](runningRequests =
          Cardinality(InFlight \cap Current) - Cardinality(orphans \cap Finished))
  /\ [](completedRequests =
          Cardinality(Finished \cap Current) + Cardinality(orphans \cap Finished))
  /\ [][\A t \in orphans :
          (actions[t].phase \in InFlightPhases /\ calls' = calls
             /\ actions'[t].phase \in FinishedPhases) =>
            /\ completedRequests' = completedRequests + 1
            /\ runningRequests' = runningRequests - 1 + Cardinality(Launched)]_vars

\* the second call resolved while its own task was still in flight, because
\* a completion of the first call was counted for it
C16_Witness ==
  /\ calls = 2
  /\ pc = "resolved"
  /\ InFlight \cap Current # {}
  /\ completedRequests >= Len(requestsList)
  /\ runningRequests # Cardinality(InFlight \cap Current)

\* runningRequests has dropped below zero
C16_WitnessNegative ==
  /\ calls = 2
  /\ runningRequests < 0

\* the path ends in the four characters ".pdf"
EndsInPdf(path) ==
  /\ Len(path) >= 4
  /\ \A k \in 1..4 : path[Len(path) - 4 + k] = << ".", "p", "d", "f" >>[k]

IsPrefix(q, r) == Len(q) <= Len(r) /\ \A i \in DOMAIN q : q[i] = r[i]

\* C13: uploadNewMagazines is called only with both SLACK_TOKEN and
\* SLACK_CHANNELS set and only after scrape() has resolved, so no upload
\* runs while a download is unstarted or in flight; with a variable missing
\* or scrape() rejected nothing is ever uploaded.
C13_NotifierGating ==
  /\ []((main.called \/ main.client \/ main.pc = "uploading"
          \/ main.uploaded # << >>) =>
          /\ main.token /\ main.channels
          /\ pc = "resolved"
          /\ Unstarted = {} /\ InFlight = {}
          /\ main.magazines = [i \in DOMAIN result |-> PathOf(result[i])])
  /\ []((~main.token \/ ~main.channels \/ pc = "rejected" \/ ~main.creds) =>
          /\ ~main.called /\ ~main.client
          /\ main.pc # "uploading"
          /\ main.uploaded = << >>)
  /\ [][main.called' # main.called => pc = "resolved" /\ UNCHANGED pc]_vars

\* an upload is running after a run in which one download failed
C13_Witness ==
  /\ main.pc = "uploading"
  /\ main.token /\ main.channels
  /\ \E t \in TaskIds : actions[t].phase = "failed"
  /\ Len(main.uploaded) >= 1

C14_WitnessNone ==
  /\ main.pc = "done"
  /\ main.called
  /\ main.magazines # << >>
  /\ ~main.client

\* C20: the filtered files are uploaded one at a time, each only after the
\* one before it succeeded; when an upload fails no later file is uploaded
\* and the error reaches the caller.
C20_UploadFailureStops ==
  /\ [](IsPrefix(main.uploaded, main.pdf))
  /\ [](main.pc = "uploading" =>
          /\ main.idx = Len(main.uploaded) + 1
          /\ main.idx \in DOMAIN main.pdf)
  /\ [](main.failedAt # 0 =>
          /\ main.pc = "done"
          /\ main.caught = "upload"
          /\ Len(main.uploaded) = main.failedAt - 1)
  /\ [][main.failedAt # 0 => UNCHANGED main]_vars

\* the second of three uploads failed: one file uploaded, the third never
C20_Witness ==
  /\ main.failedAt = 2
  /\ Len(main.pdf) = 3
  /\ Len(main.uploaded) = 1
  /\ main.pc = "done"

====
